---- MODULE Spec2Model ----
(***************************************************************************)
(* Model of scandeval/text_classification.py: the hook methods of          *)
(* TextClassificationBenchmark (_compute_metrics, _preprocess_data,        *)
(* _create_numerical_labels, _load_data_collator,                          *)
(* _get_spacy_predictions_and_labels).                                     *)
(*                                                                         *)
(* Python values are modelled as follows.                                  *)
(*   - a str / int that can sit in a label column is a tagged record       *)
(*     PyStr(s) / PyInt(n), so that "pos" and 1 are different values that  *)
(*     can be compared, as in Python;                                      *)
(*   - a dict (a batch of columns, a kwargs dict, label2id) is a function  *)
(*     whose DOMAIN is the set of keys; d[k] with k outside the DOMAIN is  *)
(*     Python's KeyError;                                                  *)
(*   - a mutable object the caller holds is a cell of heap, and a          *)
(*     reference is the cell's address;                                    *)
(*   - an exception is the outcome [kind |-> "raise", exc |-> ...].        *)
(***************************************************************************)
EXTENDS Integers, Sequences, FiniteSets, TLC

VARIABLES
    heap,       \* address -> dict: the mutable batch objects that exist
    call,       \* the hook invoked last and the arguments it was given
    outcome,    \* how that invocation ended: a return value or an exception
    collator,   \* the collator the driver got from _load_data_collator
    baseline    \* the outcome of the first _compute_metrics run on the pair

vars == <<heap, call, outcome, collator, baseline>>

(***************************************************************************)
(* Bounds of the model.                                                    *)
(***************************************************************************)
MaxRecords == 3     \* records in a dataset / labels in a batch
BatchSize == 2      \* rows Dataset.map hands to the function at once
MaxExamples == 3    \* rows N of a prediction array
MaxFeatures == 2    \* examples handed to the collator at once
MaxSeqLen == 3      \* tokens of one tokenized example handed to the collator

(***************************************************************************)
(* Python values.                                                          *)
(***************************************************************************)
PyStr(s) == [type |-> "str", val |-> s]
PyInt(n) == [type |-> "int", val |-> n]
PyList(l) == [type |-> "list", val |-> l]
None == [type |-> "NoneType"]

NoCall == [op |-> "none"]
NoOutcome == [kind |-> "none"]
Return(v) == [kind |-> "return", value |-> v]
Raise(e, a) == [kind |-> "raise", exc |-> e, args |-> a]

\* The address of the batch dict the caller passes to _create_numerical_labels.
ExamplesRef == 1

Max(a, b) == IF a >= b THEN a ELSE b
Min(a, b) == IF a <= b THEN a ELSE b

(***************************************************************************)
(* Inputs.                                                                 *)
(***************************************************************************)
\* Texts are sequences of words, a word being a small number.
Texts == {<<1>>, <<2, 1, 2>>}
LabelStrs == {PyStr("pos"), PyStr("neg"), PyStr("unk")}

\* label2id of the dataset configuration: label string -> integer id.
Label2Ids ==
    { (PyStr("pos") :> PyInt(1)) @@ (PyStr("neg") :> PyInt(0)),
      (PyStr("neg") :> PyInt(1)) @@ (PyStr("unk") :> PyInt(2)) @@ (PyStr("pos") :> PyInt(0)) }

\* A dataset / batch in column form: column name -> list, all of one length.
Tables(n) ==
    UNION {[text : [1..k -> Texts], label : [1..k -> LabelStrs]] : k \in 0..n}

\* Batches that lack the label column.
Unlabelled(n) == UNION {[text : [1..k -> Texts]] : k \in 0..n}

(***************************************************************************)
(* _create_numerical_labels                                                *)
(***************************************************************************)
\* [label2id[lbl] for lbl in labels]: defined when no lookup raises KeyError.
AllKnown(labels, label2id) ==
    \A i \in DOMAIN labels : labels[i] \in DOMAIN label2id

\* A variant of Lookup that fills the list from the back.
Lookup_Reversed(labels, label2id) ==
    [i \in DOMAIN labels |-> label2id[labels[Len(labels) + 1 - i]]]

Lookup(labels, label2id) == [i \in DOMAIN labels |-> label2id[labels[i]]]

\* A variant that replaces the labels one by one in the caller's list and
\* stops at the first unknown one.
CNL_Heap_Partial(h, ref, label2id) ==
    IF "label" \notin DOMAIN h[ref] THEN h
    ELSE LET labels == h[ref]["label"]
             bad == {i \in DOMAIN labels : labels[i] \notin DOMAIN label2id}
             stop == IF bad = {} THEN Len(labels) + 1
                     ELSE CHOOSE i \in bad : \A j \in bad : i <= j
         IN [h EXCEPT ![ref] = [h[ref] EXCEPT !["label"] =
                [i \in DOMAIN labels |->
                    IF i < stop THEN label2id[labels[i]] ELSE labels[i]]]]

\* A variant that builds the list of ids and never stores it.
CNL_Heap_NoStore(h, ref, label2id) == h

\* The heap after the call on the object at address ref.
CNL_Heap(h, ref, label2id) ==
    IF "label" \in DOMAIN h[ref] /\ AllKnown(h[ref]["label"], label2id)
    THEN [h EXCEPT ![ref] = [h[ref] EXCEPT !["label"] = Lookup(h[ref]["label"], label2id)]]
    ELSE h

\* How the call ends.
CNL_Outcome(h, ref, label2id) ==
    IF "label" \notin DOMAIN h[ref]
    THEN \* examples["label"] raises KeyError in the try block and again in
         \* the handler's f-string: the second KeyError escapes.
         Raise("KeyError", <<"label">>)
    ELSE IF AllKnown(h[ref]["label"], label2id)
    THEN Return(ref)
    ELSE Raise("InvalidBenchmark", <<h[ref]["label"], label2id>>)

_create_numerical_labels(label2id) ==
    /\ call' = [op |-> "_create_numerical_labels",
                examples |-> heap[ExamplesRef], label2id |-> label2id]
    /\ heap' = CNL_Heap(heap, ExamplesRef, label2id)
    /\ outcome' = CNL_Outcome(heap, ExamplesRef, label2id)
    /\ UNCHANGED <<collator, baseline>>

InitLabels ==
    /\ heap \in [{ExamplesRef} -> Tables(MaxRecords) \cup Unlabelled(1)]
    /\ call = NoCall
    /\ outcome = NoOutcome
    /\ collator = None
    /\ baseline = NoOutcome

NextLabels == \E label2id \in Label2Ids : _create_numerical_labels(label2id)

SpecLabels == InitLabels /\ [][NextLabels]_vars

(***************************************************************************)
(* Claims about _create_numerical_labels (checked under SpecLabels).       *)
(***************************************************************************)
IsCNL == call.op = "_create_numerical_labels"
HasLabels == IsCNL /\ "label" \in DOMAIN call.examples
Returned == outcome.kind = "return"
Raised == outcome.kind = "raise"
OtherFieldsKept(before, after) ==
    /\ DOMAIN after = DOMAIN before
    /\ \A k \in DOMAIN before \ {"label"} : after[k] = before[k]

\* C1: when every label of the batch is a key of label2id, the call returns
\* a batch whose label field has the length of the input label field and
\* whose i-th entry is label2id[i-th input label].
C1_Numericalised ==
    (HasLabels /\ \A i \in DOMAIN call.examples["label"] :
                     call.examples["label"][i] \in DOMAIN call.label2id)
    => /\ Returned
       /\ LET out == heap[outcome.value]["label"]
              inp == call.examples["label"]
          IN /\ Len(out) = Len(inp)
             /\ \A i \in 1..Len(inp) : out[i] = call.label2id[inp[i]]

C1_Witness ==
    /\ HasLabels /\ Returned
    /\ Len(call.examples["label"]) = MaxRecords
    /\ call.examples["label"][1] = PyStr("pos")
    /\ call.examples["label"][2] = PyStr("neg")
    /\ heap[outcome.value]["label"][1] = PyInt(1)
    /\ heap[outcome.value]["label"][2] = PyInt(0)

\* C6 as claimed: after a successful return the batch object the caller
\* passed in still holds its original label strings.
C6_CallerBatchUntouched ==
    (HasLabels /\ Returned) => heap[ExamplesRef]["label"] = call.examples["label"]

\* C6 as amended: the call replaces the label field of the batch object it
\* was given, in place, and returns that very object: after a successful
\* return no other object exists, the caller's batch holds the ids, its other
\* fields are unchanged; and a call on a batch that already holds ids (a
\* second call on the same non-empty batch) fails with InvalidBenchmark.
C6_InPlace ==
    /\ (HasLabels /\ Returned) =>
          /\ outcome.value = ExamplesRef
          /\ DOMAIN heap = {ExamplesRef}
          /\ OtherFieldsKept(call.examples, heap[ExamplesRef])
          /\ \A i \in DOMAIN call.examples["label"] :
                /\ heap[ExamplesRef]["label"][i].type = "int"
                /\ heap[ExamplesRef]["label"][i] = call.label2id[call.examples["label"][i]]
    /\ (HasLabels /\ \E i \in DOMAIN call.examples["label"] :
                        call.examples["label"][i].type = "int")
          => Raised /\ outcome.exc = "InvalidBenchmark"

\* The second of two calls on one batch: it was handed ids and failed.
C6_Witness ==
    /\ HasLabels /\ Raised
    /\ Len(call.examples["label"]) = 2
    /\ \A i \in 1..2 : call.examples["label"][i].type = "int"
    /\ heap[ExamplesRef] = call.examples

\* C10: when a batch that has a label field contains a label absent from
\* label2id, the label field is left as it was, the error that reaches the
\* caller is InvalidBenchmark (not KeyError), and it carries the batch's
\* original label list and the mapping searched.
C10_AllOrNothing ==
    (HasLabels /\ \E i \in DOMAIN call.examples["label"] :
                     call.examples["label"][i] \notin DOMAIN call.label2id)
    => /\ Raised
       /\ outcome.exc = "InvalidBenchmark"
       /\ outcome.args = <<call.examples["label"], call.label2id>>
       /\ heap[ExamplesRef] = call.examples

\* A failure whose first label is known and whose last is not.
C10_Witness ==
    /\ HasLabels /\ Raised
    /\ Len(call.examples["label"]) = MaxRecords
    /\ call.examples["label"][1] = PyStr("pos")
    /\ call.examples["label"][MaxRecords] = PyStr("unk")
    /\ PyStr("unk") \notin DOMAIN call.label2id

(***************************************************************************)
(* Tokenizer (the object passed as kwargs["tokenizer"]).                   *)
(***************************************************************************)
VocabOffset == 10

Tokenizers ==
    {[cls_token_id |-> 101, sep_token_id |-> 102, pad_token_id |-> p,
      padding_side |-> side, model_max_length |-> 4] :
        p \in {0, 1}, side \in {"right", "left"}}

TheTokenizer ==
    [cls_token_id |-> 101, sep_token_id |-> 102, pad_token_id |-> 0,
     padding_side |-> "right", model_max_length |-> 4]

\* Token ids of one text with truncation=True: the words cut to the room
\* the model leaves, between the two special tokens.
Encode(tok, text) ==
    LET room == tok.model_max_length - 2
        kept == SubSeq(text, 1, Min(Len(text), room))
    IN <<tok.cls_token_id>> \o [i \in 1..Len(kept) |-> kept[i] + VocabOffset]
           \o <<tok.sep_token_id>>

RECURSIVE Longest(_)
\* Length of the longest list of a list of lists.
Longest(lists) ==
    IF lists = <<>> THEN 0 ELSE Max(Len(Head(lists)), Longest(Tail(lists)))

Fill(n, v) == [i \in 1..n |-> v]

\* One list padded with v to length n on the tokenizer's padding side.
PadTo(tok, list, n, v) ==
    IF tok.padding_side = "right"
    THEN list \o Fill(n - Len(list), v)
    ELSE Fill(n - Len(list), v) \o list

\* tokenizer(doc, truncation=True, padding=True) on a list of texts.
Tokenize(tok, doc) ==
    LET ids == [i \in DOMAIN doc |-> Encode(tok, doc[i])]
        n == Longest(ids)
    IN [input_ids |-> [i \in DOMAIN doc |-> PadTo(tok, ids[i], n, tok.pad_token_id)],
        attention_mask |->
            [i \in DOMAIN doc |-> PadTo(tok, Fill(Len(ids[i]), 1), n, 0)]]

(***************************************************************************)
(* datasets.Dataset: map(batched=True) and remove_columns.                 *)
(***************************************************************************)
NumRows(ds) ==
    IF DOMAIN ds = {} THEN 0 ELSE Len(ds[CHOOSE c \in DOMAIN ds : TRUE])

Slice(ds, a, b) == [c \in DOMAIN ds |-> SubSeq(ds[c], a, b)]

\* The columns the function returns are written over the batch's columns.
Merge(batch, out) ==
    [c \in DOMAIN batch \cup DOMAIN out |->
        IF c \in DOMAIN out THEN out[c] ELSE batch[c]]

\* Two tables put one after the other; <<>> stands for no rows at all.
Append2(a, b) ==
    IF DOMAIN a = {} THEN b
    ELSE IF DOMAIN b = {} THEN a
    ELSE [c \in DOMAIN a |-> a[c] \o b[c]]

\* tokenise(examples) of the pytorch branch
tokenise(tokenizer, examples) ==
    IF "text" \in DOMAIN examples
    THEN Return(Tokenize(tokenizer, examples["text"]))
    ELSE Raise("KeyError", <<"text">>)

\* numericalise = partial(self._create_numerical_labels, label2id=...), on
\* the batch dict that Dataset.map builds for the call.
numericalise(label2id, examples) ==
    LET h == ExamplesRef :> examples
        out == CNL_Outcome(h, ExamplesRef, label2id)
    IN IF out.kind = "return"
       THEN Return(CNL_Heap(h, ExamplesRef, label2id)[out.value])
       ELSE out

\* The functions _preprocess_data hands to Dataset.map, as values: the
\* closure tokenise with its tokenizer, the partial numericalise with its
\* label2id.
TokeniseFn(tokenizer) == [name |-> "tokenise", tokenizer |-> tokenizer]
NumericaliseFn(label2id) == [name |-> "numericalise", label2id |-> label2id]

\* function(batch)
Apply(fn, batch) ==
    IF fn.name = "tokenise" THEN tokenise(fn.tokenizer, batch)
    ELSE numericalise(fn.label2id, batch)

RECURSIVE MapFrom_SkipFailed(_, _, _)
\* A variant of MapFrom that leaves out a batch on which the function raises.
MapFrom_SkipFailed(fn, ds, start) ==
    IF start > NumRows(ds) THEN Return(<<>>)
    ELSE LET batch == Slice(ds, start, Min(start + BatchSize - 1, NumRows(ds)))
             out == Apply(fn, batch)
             rest == MapFrom_SkipFailed(fn, ds, start + BatchSize)
         IN IF out.kind = "raise" THEN rest
            ELSE Return(Append2(Merge(batch, out.value), rest.value))

RECURSIVE MapFrom(_, _, _)
\* The batches from row start on, each run through the function, put together
\* again; an exception of the function ends the mapping.
MapFrom(fn, ds, start) ==
    IF start > NumRows(ds) THEN Return(<<>>)
    ELSE LET batch == Slice(ds, start, Min(start + BatchSize - 1, NumRows(ds)))
             out == Apply(fn, batch)
         IN IF out.kind = "raise" THEN out
            ELSE LET rest == MapFrom(fn, ds, start + BatchSize)
                 IN IF rest.kind = "raise" THEN rest
                    ELSE Return(Append2(Merge(batch, out.value), rest.value))

\* Dataset.map(function, batched=True): a dataset without rows is returned as it is.
Map(fn, ds) == IF NumRows(ds) = 0 THEN Return(ds) ELSE MapFrom(fn, ds, 1)

\* A variant of RemoveColumns that returns the dataset as it came.
RemoveColumns_Keep(ds, cols) == Return(ds)

\* Dataset.remove_columns(cols)
RemoveColumns(ds, cols) ==
    IF cols \subseteq DOMAIN ds
    THEN Return([c \in DOMAIN ds \ cols |-> ds[c]])
    ELSE Raise("ValueError", <<cols \ DOMAIN ds>>)

(***************************************************************************)
(* _preprocess_data                                                        *)
(***************************************************************************)
SpacyPreprocessMessage ==
    "Evaluation of text predictions for SpaCy models is not yet implemented."
SpacyPredictMessage ==
    "Evaluation of text classification tasks for SpaCy models is not yet implemented."

\* The branch for framework "pytorch".
PytorchBranch(dataset, kwargs) ==
    IF "tokenizer" \notin DOMAIN kwargs THEN Raise("KeyError", <<"tokenizer">>)
    ELSE LET tokenised == Map(TokeniseFn(kwargs["tokenizer"]), dataset)
         IN IF tokenised.kind = "raise" THEN tokenised
            ELSE IF "config" \notin DOMAIN kwargs THEN Raise("KeyError", <<"config">>)
            ELSE LET preprocessed ==
                         Map(NumericaliseFn(kwargs["config"].label2id), tokenised.value)
                 IN IF preprocessed.kind = "raise" THEN preprocessed
                    ELSE RemoveColumns(preprocessed.value, {"text"})

\* A variant that fetches the tokenizer before it looks at the framework.
PreprocessOutcome_Hoisted(dataset, framework, kwargs) ==
    IF "tokenizer" \notin DOMAIN kwargs THEN Raise("KeyError", <<"tokenizer">>)
    ELSE IF framework = "pytorch" THEN PytorchBranch(dataset, kwargs)
    ELSE IF framework = "spacy"
    THEN Raise("InvalidBenchmark", <<SpacyPreprocessMessage>>)
    ELSE Return(None)

\* How _preprocess_data(dataset, framework, **kwargs) ends.
PreprocessOutcome(dataset, framework, kwargs) ==
    IF framework = "pytorch" THEN PytorchBranch(dataset, kwargs)
    ELSE IF framework = "spacy"
    THEN Raise("InvalidBenchmark", <<SpacyPreprocessMessage>>)
    ELSE \* no branch is taken and the function body ends
         Return(None)

Frameworks == {"pytorch", "spacy", "jax"}

Kwargs ==
    {<<>>}
    \cup {[tokenizer |-> TheTokenizer]}
    \cup {[config |-> [label2id |-> m]] : m \in Label2Ids}
    \cup {[tokenizer |-> TheTokenizer, config |-> [label2id |-> m]] : m \in Label2Ids}

Datasets == Tables(MaxRecords) \cup Unlabelled(1)

\* The driver has prepared the arguments (call); the hook runs once on them.
_preprocess_data ==
    /\ call.op = "_preprocess_data"
    /\ outcome = NoOutcome
    /\ outcome' = PreprocessOutcome(call.dataset, call.framework, call.kwargs)
    /\ UNCHANGED <<heap, call, collator, baseline>>

\* How _get_spacy_predictions_and_labels(model, dataset) ends.
SpacyPredictionsOutcome(model, dataset) ==
    Raise("InvalidBenchmark", <<SpacyPredictMessage>>)

SpacyModels == {"da_core_news_sm", "nb_core_news_sm"}

_get_spacy_predictions_and_labels ==
    /\ call.op = "_get_spacy_predictions_and_labels"
    /\ outcome = NoOutcome
    /\ outcome' = SpacyPredictionsOutcome(call.model, call.dataset)
    /\ UNCHANGED <<heap, call, collator, baseline>>

InitPreprocess ==
    /\ heap = <<>>
    /\ call \in [op : {"_preprocess_data"}, dataset : Datasets,
                 framework : Frameworks, kwargs : Kwargs]
                \cup [op : {"_get_spacy_predictions_and_labels"},
                      model : SpacyModels, dataset : Datasets]
    /\ outcome = NoOutcome
    /\ collator = None
    /\ baseline = NoOutcome

NextPreprocess ==
    \/ _preprocess_data
    \/ _get_spacy_predictions_and_labels

SpecPreprocess == InitPreprocess /\ [][NextPreprocess]_vars

(***************************************************************************)
(* Claims about _preprocess_data and _get_spacy_predictions_and_labels     *)
(* (checked under SpecPreprocess).                                         *)
(***************************************************************************)
IsPre == call.op = "_preprocess_data" /\ outcome # NoOutcome
IsPytorch == IsPre /\ call.framework = "pytorch"
FullContext == {"tokenizer", "config"} \subseteq DOMAIN call.kwargs
Labelled == "label" \in DOMAIN call.dataset
SomeUnknown ==
    \E i \in DOMAIN call.dataset["label"] :
        call.dataset["label"][i] \notin DOMAIN call.kwargs["config"].label2id

\* C2: a dataset with a label absent from label2id, at any position and in
\* any batch, makes _preprocess_data with framework "pytorch" fail with
\* InvalidBenchmark; no dataset is returned.
C2_UnknownLabelAborts ==
    (IsPytorch /\ Labelled /\ "config" \in DOMAIN call.kwargs /\ SomeUnknown)
    => /\ Raised
       /\ "tokenizer" \in DOMAIN call.kwargs => outcome.exc = "InvalidBenchmark"

\* The offending record is the last one, alone in the second batch, after a
\* first batch of valid records.
C2_Witness ==
    /\ IsPytorch /\ Labelled /\ FullContext
    /\ Len(call.dataset["label"]) = BatchSize + 1
    /\ \A i \in 1..BatchSize :
           call.dataset["label"][i] \in DOMAIN call.kwargs["config"].label2id
    /\ call.dataset["label"][BatchSize + 1] \notin DOMAIN call.kwargs["config"].label2id
    /\ Raised /\ outcome.exc = "InvalidBenchmark"
    /\ outcome.args[1] = <<call.dataset["label"][BatchSize + 1]>>

\* C3: with framework "pytorch", a tokenizer, a config and labels that are
\* all keys of label2id, the call returns a dataset with as many records in
\* the same order, without the text column, where record i has the padded
\* token ids and attention mask of text i and the label label2id[label i].
C3_Preprocessed ==
    (IsPytorch /\ Labelled /\ FullContext /\ ~SomeUnknown)
    => /\ Returned
       /\ LET out == outcome.value
              inp == call.dataset
              tok == call.kwargs["tokenizer"]
              l2i == call.kwargs["config"].label2id
              n == Len(inp["label"])
          IN /\ "text" \notin DOMAIN out
             /\ "label" \in DOMAIN out
             /\ Len(out["label"]) = n
             /\ \A i \in 1..n :
                  /\ out["label"][i] = l2i[inp["label"][i]]
                  /\ {"input_ids", "attention_mask"} \subseteq DOMAIN out
                  /\ LET ids == out["input_ids"][i]
                         mask == out["attention_mask"][i]
                         enc == Encode(tok, inp["text"][i])
                     IN /\ Len(ids) <= tok.model_max_length
                        /\ Len(mask) = Len(ids)
                        /\ SubSeq(ids, 1, Len(enc)) = enc
                        /\ \A j \in 1..Len(ids) :
                             /\ mask[j] = IF j <= Len(enc) THEN 1 ELSE 0
                             /\ j > Len(enc) => ids[j] = tok.pad_token_id

\* Two batches; the first holds a short and a long text, so that the short
\* one is padded and the long one truncated.
C3_Witness ==
    /\ IsPytorch /\ Returned
    /\ call.dataset["text"] = <<<<1>>, <<2, 1, 2>>, <<1>>>>
    /\ call.dataset["label"] = <<PyStr("pos"), PyStr("neg"), PyStr("pos")>>
    /\ outcome.value["label"] = <<PyInt(1), PyInt(0), PyInt(1)>>
    /\ outcome.value["input_ids"] =
           <<<<101, 11, 102, 0>>, <<101, 12, 11, 102>>, <<101, 11, 102>>>>
    /\ DOMAIN outcome.value = {"label", "input_ids", "attention_mask"}

\* C5: framework "spacy" makes _preprocess_data fail with the "not yet
\* implemented" InvalidBenchmark whatever the dataset and keyword arguments
\* are, and _get_spacy_predictions_and_labels fails so for every model and
\* dataset.
C5_SpacyUnsupported ==
    /\ (IsPre /\ call.framework = "spacy")
         => outcome = Raise("InvalidBenchmark", <<SpacyPreprocessMessage>>)
    /\ (call.op = "_get_spacy_predictions_and_labels" /\ outcome # NoOutcome)
         => outcome = Raise("InvalidBenchmark", <<SpacyPredictMessage>>)

\* Framework "spacy" with no keyword arguments at all and a dataset whose
\* label is not in any label2id.
C5_Witness ==
    /\ IsPre /\ call.framework = "spacy"
    /\ call.kwargs = <<>>
    /\ Labelled /\ call.dataset["label"] = <<PyStr("unk")>>
    /\ Raised /\ outcome.exc = "InvalidBenchmark"

\* C7: a framework tag that is neither "pytorch" nor "spacy" is rejected:
\* the call does not return normally.
C7_OtherFrameworkRejected ==
    (IsPre /\ call.framework \notin {"pytorch", "spacy"}) => Raised

(***************************************************************************)
(* _compute_metrics                                                        *)
(***************************************************************************)
RECURSIVE ArgMaxFrom(_, _, _)
\* Position (from 1) of the first largest entry of row among k..Len(row),
\* best being the position of the largest entry before k.
ArgMaxFrom(row, k, best) ==
    IF k > Len(row) THEN best
    ELSE ArgMaxFrom(row, k + 1, IF row[k] > row[best] THEN k ELSE best)

RECURSIVE ArgMinFrom(_, _, _)
ArgMinFrom(row, k, best) ==
    IF k > Len(row) THEN best
    ELSE ArgMinFrom(row, k + 1, IF row[k] < row[best] THEN k ELSE best)

\* A variant of ArgMax that takes the smallest score.
ArgMax_Min(row) == ArgMinFrom(row, 2, 1) - 1

\* numpy argmax of one row of scores: the index (from 0) of the first maximum.
ArgMax(row) == ArgMaxFrom(row, 2, 1) - 1

\* predictions.argmax(axis=-1)
ArgMaxRows(predictions) == [i \in DOMAIN predictions |-> ArgMax(predictions[i])]

RECURSIVE SumOver(_, _)
\* The sum of f[k] over the finite set S.
SumOver(f, S) ==
    IF S = {} THEN 0
    ELSE LET k == CHOOSE x \in S : TRUE IN f[k] + SumOver(f, S \ {k})

\* The Matthews correlation coefficient of references and predictions, from
\* their confusion matrix.  The coefficient is num / sqrt(den2), kept as the
\* pair of integers [num, den2]; it is 0 when the denominator vanishes.
MatthewsCorrcoef(predictions, references) ==
    LET n == Len(references)
        classes == {references[i] : i \in 1..n} \cup {predictions[i] : i \in 1..n}
        confusion == [t \in classes |-> [p \in classes |->
            Cardinality({i \in 1..n : references[i] = t /\ predictions[i] = p})]]
        t_sum == [k \in classes |-> SumOver(confusion[k], classes)]
        p_sum == [k \in classes |-> SumOver([t \in classes |-> confusion[t][k]], classes)]
        n_correct == SumOver([k \in classes |-> confusion[k][k]], classes)
        n_samples == SumOver(p_sum, classes)
        cov_ytyp == n_correct * n_samples
                       - SumOver([k \in classes |-> t_sum[k] * p_sum[k]], classes)
        cov_ypyp == n_samples * n_samples
                       - SumOver([k \in classes |-> p_sum[k] * p_sum[k]], classes)
        cov_ytyt == n_samples * n_samples
                       - SumOver([k \in classes |-> t_sum[k] * t_sum[k]], classes)
    IN IF cov_ypyp * cov_ytyt = 0
       THEN [num |-> 0, den2 |-> 1]
       ELSE [num |-> cov_ytyp, den2 |-> cov_ytyt * cov_ypyp]

\* self._metrics["mcc"].compute(predictions=..., references=...)
MccCompute(predictions, references) ==
    [matthews_correlation |-> MatthewsCorrcoef(predictions, references)]

\* A variant that looks only at the score columns id2label names.
ComputeMetricsOutcome_Named(predictions_and_labels, id2label) ==
    LET predictions == predictions_and_labels[1]
        labels == predictions_and_labels[2]
        cut == IF id2label = None THEN predictions
               ELSE [i \in DOMAIN predictions |->
                        SubSeq(predictions[i], 1,
                               Min(Len(id2label.val), Len(predictions[i])))]
    IN Return([mcc |-> MccCompute(ArgMaxRows(cut), labels).matthews_correlation])

\* How _compute_metrics(predictions_and_labels, id2label) ends.
ComputeMetricsOutcome(predictions_and_labels, id2label) ==
    LET predictions == predictions_and_labels[1]
        labels == predictions_and_labels[2]
        argmax == ArgMaxRows(predictions)
        results == MccCompute(argmax, labels)
    IN Return([mcc |-> results.matthews_correlation])

\* Scores in tenths.
ScoreVals == {1, 9}

\* The pair of section 8 of the specification:
\* predictions [[0.1,0.9],[0.8,0.2],[0.3,0.7]], labels [1,0,0].
ExamplePair == << <<<<1, 9>>, <<8, 2>>, <<3, 7>>>>, <<1, 0, 0>> >>

\* Pairs (predictions of shape (n, c), labels of length n).
Pairs(n, c) == [1..n -> [1..c -> ScoreVals]] \X [1..n -> 0..(c - 1)]

\* Up to MaxExamples rows of two scores, one row less of three scores, and
\* the pair of the specification.
PredictionsAndLabels ==
    {ExamplePair}
    \cup UNION {Pairs(n, 2) : n \in 1..MaxExamples}
    \cup UNION {Pairs(n, 3) : n \in 1..(MaxExamples - 1)}

Id2Labels == {None, PyList(<<"neg", "pos">>), PyList(<<"neg", "pos", "unk">>)}

\* One run of the hook on the pair the driver holds, with some id2label.
_compute_metrics(id2label) ==
    /\ call.op = "_compute_metrics"
    /\ call' = [call EXCEPT !.id2label = id2label]
    /\ outcome' = ComputeMetricsOutcome(call.predictions_and_labels, id2label)
    /\ baseline' = IF baseline = NoOutcome THEN outcome' ELSE baseline
    /\ UNCHANGED <<heap, collator>>

InitMetrics ==
    /\ heap = <<>>
    /\ call \in [op : {"_compute_metrics"},
                 predictions_and_labels : PredictionsAndLabels, id2label : {None}]
    /\ outcome = NoOutcome
    /\ collator = None
    /\ baseline = NoOutcome

NextMetrics == \E id2label \in Id2Labels : _compute_metrics(id2label)

SpecMetrics == InitMetrics /\ [][NextMetrics]_vars

(***************************************************************************)
(* Claims about _compute_metrics (checked under SpecMetrics).              *)
(***************************************************************************)
RanMetrics == call.op = "_compute_metrics" /\ outcome # NoOutcome

\* The class row i is given: the first column with the largest score.
PredictedClass(row) ==
    CHOOSE k \in 0..(Len(row) - 1) :
        /\ \A j \in 1..Len(row) : row[k + 1] >= row[j]
        /\ \A j \in 1..k : row[j] < row[k + 1]

Count(S) == Cardinality(S)

\* C4: _compute_metrics returns a mapping with the single key "mcc", whose
\* value is the Matthews correlation coefficient of the per-row arg-max and
\* the gold labels over all N examples and lies in [-1, 1]; for the pair of
\* the specification the predicted classes are [1,0,1] and mcc is 1/2, not 1.
C4_Mcc ==
    RanMetrics =>
      /\ Returned
      /\ DOMAIN outcome.value = {"mcc"}
      /\ LET v == outcome.value["mcc"]
             P == call.predictions_and_labels[1]
             L == call.predictions_and_labels[2]
             N == Len(L)
             pred == [i \in 1..N |-> PredictedClass(P[i])]
             K == {L[i] : i \in 1..N} \cup {pred[i] : i \in 1..N}
             hits == Count({i \in 1..N : pred[i] = L[i]})
             tk == [k \in K |-> Count({i \in 1..N : L[i] = k})]
             pk == [k \in K |-> Count({i \in 1..N : pred[i] = k})]
             cov == N * hits - SumOver([k \in K |-> tk[k] * pk[k]], K)
             vt == N * N - SumOver([k \in K |-> tk[k] * tk[k]], K)
             vp == N * N - SumOver([k \in K |-> pk[k] * pk[k]], K)
         IN /\ v.den2 > 0
            /\ v.num * v.num <= v.den2
            /\ IF vt * vp = 0 THEN v.num = 0
               ELSE v.num = cov /\ v.den2 = vt * vp
            /\ (v.num > 0 /\ v.num * v.num = v.den2) => hits = N
            /\ call.predictions_and_labels = ExamplePair =>
                 /\ pred = <<1, 0, 1>>
                 /\ v = [num |-> 2, den2 |-> 16]
                 /\ ~(v.num > 0 /\ v.num * v.num = v.den2)

C4_Witness ==
    /\ RanMetrics /\ Returned
    /\ call.predictions_and_labels = ExamplePair
    /\ outcome.value = [mcc |-> [num |-> 2, den2 |-> 16]]

\* C8: two runs on one (predictions, labels) pair that differ only in
\* id2label return the same value.
C8_Id2LabelIgnored ==
    RanMetrics => outcome = baseline

\* A second run, with a list for id2label, after a first run without one,
\* on scores of three classes whose largest is in the third column.
C8_Witness ==
    /\ RanMetrics
    /\ call.id2label = PyList(<<"neg", "pos">>)
    /\ call.predictions_and_labels[1] = <<<<1, 1, 9>>, <<9, 1, 1>>>>
    /\ call.predictions_and_labels[2] = <<2, 0>>
    /\ baseline = outcome
    /\ outcome.value["mcc"].num > 0

(***************************************************************************)
(* _load_data_collator and the collator it returns                         *)
(***************************************************************************)
\* A variant that asks for padding to the model's maximum length.
LoadDataCollatorOutcome_MaxLength(tokenizer) ==
    Return([type |-> "DataCollatorWithPadding",
            tokenizer |-> tokenizer, padding |-> "max_length"])

\* How _load_data_collator(tokenizer) ends.
LoadDataCollatorOutcome(tokenizer) ==
    Return([type |-> "DataCollatorWithPadding",
            tokenizer |-> tokenizer, padding |-> "longest"])

\* DataCollatorWithPadding.__call__(features): the tokenizer pads every
\* feature to the length its padding strategy gives; "label" becomes "labels".
Collate(dc, features) ==
    IF dc.tokenizer = None
    THEN Raise("AttributeError", <<"pad">>)
    ELSE LET tok == dc.tokenizer
             ids == [i \in DOMAIN features |-> features[i]["input_ids"]]
             n == IF dc.padding = "longest" THEN Longest(ids)
                  ELSE tok.model_max_length
         IN Return([input_ids |-> [i \in DOMAIN features |->
                        PadTo(tok, ids[i], n, tok.pad_token_id)],
                    attention_mask |-> [i \in DOMAIN features |->
                        PadTo(tok, features[i]["attention_mask"], n, 0)],
                    labels |-> [i \in DOMAIN features |-> features[i]["label"]]])

TokenIds == {11, 12}

\* One tokenized, unpadded example of the preprocessed dataset.
Examples ==
    UNION {[input_ids : [1..k -> TokenIds], attention_mask : {Fill(k, 1)},
            label : {PyInt(0)}] : k \in 1..MaxSeqLen}

\* The lists of examples a data loader hands to the collator.
Features == UNION {[1..k -> Examples] : k \in 1..MaxFeatures}

_load_data_collator ==
    /\ call.op = "_load_data_collator"
    /\ outcome = NoOutcome
    /\ outcome' = LoadDataCollatorOutcome(call.tokenizer)
    /\ collator' = outcome'.value
    /\ UNCHANGED <<heap, call, baseline>>

\* The driver's data loader applies the collator to the features it holds.
collate ==
    /\ call.op = "_load_data_collator"
    /\ outcome.kind = "return"
    /\ call' = [op |-> "collate", features |-> heap]
    /\ outcome' = Collate(collator, heap)
    /\ UNCHANGED <<heap, collator, baseline>>

InitCollator ==
    /\ heap \in Features
    /\ call \in [op : {"_load_data_collator"}, tokenizer : Tokenizers \cup {None}]
    /\ outcome = NoOutcome
    /\ collator = None
    /\ baseline = NoOutcome

NextCollator == _load_data_collator \/ collate

SpecCollator == InitCollator /\ [][NextCollator]_vars

(***************************************************************************)
(* Claims about _load_data_collator (checked under SpecCollator).          *)
(***************************************************************************)
Collated == call.op = "collate"

\* C9: the collator got with a tokenizer pads every example of a batch to
\* the length of the longest example of that batch with the tokenizer's
\* padding value: all outputs have that one length, and each example's own
\* tokens are kept, next to the padding.
C9_PadsToLongest ==
    (Collated /\ collator.tokenizer # None) =>
      /\ Returned
      /\ LET tok == collator.tokenizer
             out == outcome.value["input_ids"]
             inp == [i \in DOMAIN call.features |-> call.features[i]["input_ids"]]
             longest == CHOOSE n \in {Len(inp[i]) : i \in DOMAIN inp} :
                            \A i \in DOMAIN inp : Len(inp[i]) <= n
         IN /\ DOMAIN out = DOMAIN inp
            /\ \A i \in DOMAIN inp :
                 LET pad == longest - Len(inp[i])
                 IN /\ Len(out[i]) = longest
                    /\ IF tok.padding_side = "right"
                       THEN /\ SubSeq(out[i], 1, Len(inp[i])) = inp[i]
                            /\ \A j \in (Len(inp[i]) + 1)..longest :
                                   out[i][j] = tok.pad_token_id
                       ELSE /\ SubSeq(out[i], pad + 1, longest) = inp[i]
                            /\ \A j \in 1..pad : out[i][j] = tok.pad_token_id

\* Two examples of lengths 1 and 2, padded to 2, which is less than the
\* tokenizer's model_max_length.
C9_Witness ==
    /\ Collated /\ Returned
    /\ collator.tokenizer # None
    /\ Len(call.features) = 2
    /\ call.features[1]["input_ids"] = <<11>>
    /\ call.features[2]["input_ids"] = <<12, 11>>
    /\ collator.tokenizer.padding_side = "right"
    /\ outcome.value["input_ids"] = << <<11, collator.tokenizer.pad_token_id>>, <<12, 11>> >>
    /\ collator.tokenizer.model_max_length > 2

====
